---------------------------- MODULE Spec2Model ----------------------------
(***************************************************************************)
(* A model of the acquisitions API: the users table, the auth and users   *)
(* services, the controllers over them and the /api/auth router.          *)
(*                                                                         *)
(* Strings that the code inspects character by character (names, emails)  *)
(* are sequences of one-character strings; roles, passwords and messages  *)
(* are TLA+ strings.  A JavaScript value that may be undefined or of the   *)
(* wrong type is a record [t |-> typeof, v |-> value].                     *)
(***************************************************************************)
EXTENDS Integers, Sequences, FiniteSets, TLC

VARIABLES
    users,      \* the rows of the users table
    nextId,     \* the serial the store assigns the next inserted row
    req,        \* the request (or service call) the last step handled
    svc,        \* what the service returned or threw in the last step
    resp,       \* what the last step did to the HTTP response
    deletedIds, \* history: the ids deleteUser has returned so far
    upd         \* an updateUser call in flight, between its awaits

vars == <<users, nextId, req, svc, resp, deletedIds, upd>>

---------------------------------------------------------------------------
(* Bounds *)

MaxUsers == 2

---------------------------------------------------------------------------
(* JavaScript values *)

UndefSeq == [t |-> "undefined", v |-> <<>>]
UndefStr == [t |-> "undefined", v |-> ""]
Str(s) == [t |-> "string", v |-> s]
Num(s) == [t |-> "number", v |-> s]
IsDefined(x) == x.t # "undefined"
IsString(x) == x.t = "string"

---------------------------------------------------------------------------
(* String primitives used by the validation schemas *)

LowerChar(c) ==
    CASE c = "A" -> "a"
      [] c = "B" -> "b"
      [] OTHER -> c

ToLowerCase(s) == [i \in 1..Len(s) |-> LowerChar(s[i])]

RECURSIVE TrimStart(_)
TrimStart(s) ==
    IF s # <<>> /\ Head(s) = " " THEN TrimStart(Tail(s)) ELSE s

RECURSIVE TrimEnd(_)
TrimEnd(s) ==
    IF s # <<>> /\ s[Len(s)] = " " THEN TrimEnd(SubSeq(s, 1, Len(s) - 1)) ELSE s

Trim(s) == TrimEnd(TrimStart(s))

Positions(s, c) == {i \in 1..Len(s) : s[i] = c}

\* z.string().email(): one "@", a local part, a dotted domain, no blanks
IsEmailFormat(s) ==
    /\ Cardinality(Positions(s, "@")) = 1
    /\ Positions(s, " ") = {}
    /\ LET at == CHOOSE i \in Positions(s, "@") : TRUE
       IN  /\ at > 1
           /\ \E d \in Positions(s, ".") : d > at + 1 /\ d < Len(s)

NameMin == 2
NameMax == 255
EmailMax == 255
PasswordMin == 6
PasswordMax == 128
SignInPasswordMin == 1
Roles == {"user", "admin"}

---------------------------------------------------------------------------
(* Validation schemas: safeParse gives [success, data, issues] *)

NameIssues(x) ==
    IF ~IsString(x) THEN <<"Invalid input: expected string">>
    ELSE (IF Len(x.v) < NameMin THEN <<"Too small: expected string to have >=2 characters">> ELSE <<>>)
      \o (IF Len(x.v) > NameMax THEN <<"Too big: expected string to have <=255 characters">> ELSE <<>>)

EmailIssues(x) ==
    IF ~IsString(x) THEN <<"Invalid input: expected string">>
    ELSE (IF ~IsEmailFormat(x.v) THEN <<"Invalid email address">> ELSE <<>>)
      \o (IF Len(x.v) > EmailMax THEN <<"Too big: expected string to have <=255 characters">> ELSE <<>>)

RoleIssues_anyString(x) ==
    IF IsString(x) THEN <<>>
    ELSE <<"Invalid input: expected string">>

RoleIssues(x) ==
    IF IsString(x) /\ x.v \in Roles THEN <<>>
    ELSE <<"Invalid option: expected one of \"user\"|\"admin\"">>

Optional(x, issues) == IF IsDefined(x) THEN issues ELSE <<>>

ParsedName(x) == IF IsDefined(x) THEN Str(Trim(x.v)) ELSE x
ParsedEmail(x) == IF IsDefined(x) THEN Str(Trim(ToLowerCase(x.v))) ELSE x

\* z.coerce.number().int().positive() over the route parameter
userIdSchema(params) ==
    LET ok == params.id.numeric /\ params.id.n > 0
    IN  [success |-> ok,
         data |-> [id |-> IF ok THEN params.id.n ELSE 0],
         issues |-> IF ok THEN <<>>
                    ELSE IF ~params.id.numeric
                         THEN <<"Invalid input: expected number, received NaN">>
                         ELSE <<"Too small: expected number to be >0">>]

updateUserSchema(body) ==
    LET fieldIssues == Optional(body.name, NameIssues(body.name))
                    \o Optional(body.email, EmailIssues(body.email))
                    \o Optional(body.role, RoleIssues(body.role))
        refined == IsDefined(body.name) \/ IsDefined(body.email) \/ IsDefined(body.role)
        issues == IF fieldIssues # <<>> THEN fieldIssues
                  ELSE IF ~refined THEN <<"At least one field must be provided to update">>
                  ELSE <<>>
    IN  [success |-> issues = <<>>,
         data |-> IF issues = <<>>
                  THEN [name |-> ParsedName(body.name),
                        email |-> ParsedEmail(body.email),
                        role |-> body.role]
                  ELSE [name |-> UndefSeq, email |-> UndefSeq, role |-> UndefStr],
         issues |-> issues]

PasswordIssues(x, min) ==
    IF ~IsString(x) THEN <<"Invalid input: expected string">>
    ELSE (IF Len(x.v) < min THEN <<"Too small: password">> ELSE <<>>)
      \o (IF Len(x.v) > PasswordMax THEN <<"Too big: password">> ELSE <<>>)

signupSchema(body) ==
    LET issues == NameIssues(body.name) \o EmailIssues(body.email)
                  \o PasswordIssues(body.password, PasswordMin)
                  \o Optional(body.role, RoleIssues(body.role))
    IN  [success |-> issues = <<>>,
         data |-> IF issues = <<>>
                  THEN [name |-> ParsedName(body.name),
                        email |-> ParsedEmail(body.email),
                        password |-> body.password,
                        role |-> body.role]
                  ELSE [name |-> UndefSeq, email |-> UndefSeq,
                        password |-> UndefStr, role |-> UndefStr],
         issues |-> issues]

signInSchema(body) ==
    LET issues == EmailIssues(body.email)
                  \o PasswordIssues(body.password, SignInPasswordMin)
    IN  [success |-> issues = <<>>,
         data |-> IF issues = <<>>
                  THEN [email |-> ParsedEmail(body.email), password |-> body.password]
                  ELSE [email |-> UndefSeq, password |-> UndefStr],
         issues |-> issues]

RECURSIVE Join(_)
Join(msgs) ==
    IF msgs = <<>> THEN ""
    ELSE IF Len(msgs) = 1 THEN msgs[1]
    ELSE msgs[1] \o ", " \o Join(Tail(msgs))

formatValidationError(result) == Join(result.issues)

---------------------------------------------------------------------------
(* Errors: a JavaScript Error with its message and its ad hoc .code *)

Err(code, message) == [code |-> code, message |-> message]
NoErr == Err("", "")
DbError == Err("", "database error")

---------------------------------------------------------------------------
(* The users table (user.model.js, as described in WARP.md) *)

SelectByEmail(store, email) == {r \in store : r.email = email}
SelectById(store, id) == {r \in store : r.id = id}

\* the unique index on users.email
EmailUnique(store) ==
    \A r1, r2 \in store : r1.email = r2.email => r1.id = r2.id

NewRow(id, name, email, password, role) ==
    [id |-> id, name |-> name, email |-> email, password |-> password,
     role |-> role, createdAt |-> id, updatedAt |-> id]

\* select({id, name, email, role, createdAt, updatedAt}) / returning({...})
PublicColumns(r) ==
    [id |-> r.id, name |-> r.name, email |-> r.email, role |-> r.role,
     createdAt |-> r.createdAt, updatedAt |-> r.updatedAt]

\* returning({id, name, email, role}) of the insert
InsertedColumns(r) ==
    [id |-> r.id, name |-> r.name, email |-> r.email, role |-> r.role]

---------------------------------------------------------------------------
(* Service results: a returned value or a thrown error, and the table after *)

Returned(dtos, id, store, nid) ==
    [called |-> TRUE, ok |-> TRUE, err |-> NoErr, dto |-> dtos, id |-> id,
     store |-> store, nextId |-> nid]

Thrown(err, store, nid) ==
    [called |-> TRUE, ok |-> FALSE, err |-> err, dto |-> {}, id |-> 0,
     store |-> store, nextId |-> nid]

NotCalled(store, nid) ==
    [called |-> FALSE, ok |-> FALSE, err |-> NoErr, dto |-> {}, id |-> 0,
     store |-> store, nextId |-> nid]

Rethrown(r, err) == [r EXCEPT !.err = err]

---------------------------------------------------------------------------
(* auth.service.js *)

hashPassword(password) == <<"bcrypt", 10, password>>
bcryptCompare(password, hash) == hash = <<"bcrypt", 10, password>>

createUserTry(store, nid, name, email, password, role, fault) ==
    IF fault THEN Thrown(DbError, store, nid)
    ELSE IF SelectByEmail(store, email) # {}
    THEN Thrown(Err("", "User with this email already exists"), store, nid)
    ELSE LET row == NewRow(nid, name, email, hashPassword(password),
                           IF IsDefined(role) THEN role.v ELSE "user")
         IN  Returned({InsertedColumns(row)}, 0, store \cup {row}, nid + 1)

\* the catch block replaces whatever was thrown
createUser(store, nid, name, email, password, role, fault) ==
    LET r == createUserTry(store, nid, name, email, password, role, fault)
    IN  IF r.ok THEN r ELSE Rethrown(r, Err("", "Failed to create user"))

WithoutPassword_wholeRow(r) == r

\* const { password: _password, ...userWithoutPassword } = user
WithoutPassword(r) == [k \in DOMAIN r \ {"password"} |-> r[k]]

signInNoUserError_userNotFound == Err("USER_NOT_FOUND", "User not found")

signInNoUserError == Err("INVALID_CREDENTIALS", "Invalid email or password")
signInNoMatchError == Err("INVALID_CREDENTIALS", "Invalid email or password")

signInTry(store, nid, email, password, fault) ==
    IF fault THEN Thrown(DbError, store, nid)
    ELSE LET found == SelectByEmail(store, email)
         IN  IF found = {} THEN Thrown(signInNoUserError, store, nid)
             ELSE LET user == CHOOSE r \in found : TRUE
                  IN  IF ~bcryptCompare(password, user.password)
                      THEN Thrown(signInNoMatchError, store, nid)
                      ELSE Returned({WithoutPassword(user)}, 0, store, nid)

signInService(store, nid, email, password, fault) ==
    LET r == signInTry(store, nid, email, password, fault)
    IN  IF r.ok \/ r.err.code = "INVALID_CREDENTIALS" THEN r
        ELSE Rethrown(r, Err("", "Failed to sign in"))

---------------------------------------------------------------------------
(* users.service.js *)

UserNotFound == Err("USER_NOT_FOUND", "User not found")

getAllUsersService(store, nid, fault) ==
    IF fault THEN Thrown(Err("", "Failed to fetch users"), store, nid)
    ELSE Returned({PublicColumns(r) : r \in store}, 0, store, nid)

getUserByIdTry(store, nid, id, fault) ==
    IF fault THEN Thrown(DbError, store, nid)
    ELSE LET found == SelectById(store, id)
         IN  IF found = {} THEN Thrown(UserNotFound, store, nid)
             ELSE Returned({PublicColumns(r) : r \in found}, 0, store, nid)

getUserByIdService(store, nid, id, fault) ==
    LET r == getUserByIdTry(store, nid, id, fault)
    IN  IF r.ok \/ r.err.code = "USER_NOT_FOUND" THEN r
        ELSE Rethrown(r, Err("", "Failed to fetch user"))

\* the keys of updateData: the fields of the partial that are strings
UpdateDataKeys(updates) ==
    {k \in {"name", "email", "role"} : IsString(updates[k])}

\* db.update(users).set(updateData).where(eq(users.id, id))
SetColumns(r, updates) ==
    [k \in DOMAIN r |->
        IF k \in UpdateDataKeys(updates) THEN updates[k].v ELSE r[k]]

UpdatedStore_noWhere(store, id, updates) ==
    {SetColumns(r, updates) : r \in store}

UpdatedStore(store, id, updates) ==
    {IF r.id = id THEN SetColumns(r, updates) ELSE r : r \in store}

\* updateUser after its existence check, on the table as it is by then:
\* the re-fetch, or the update whose returning() rows give updatedUser
\* (no row: undefined, returned all the same)
updateUserWrite(store, nid, id, updates) ==
    IF UpdateDataKeys(updates) = {}
    THEN getUserByIdService(store, nid, id, FALSE)
    ELSE LET after == UpdatedStore(store, id, updates)
         IN  IF ~EmailUnique(after) THEN Thrown(DbError, store, nid)
             ELSE Returned({PublicColumns(r) : r \in SelectById(after, id)},
                           0, after, nid)

updateUserTry(store, nid, id, updates, fault) ==
    IF fault THEN Thrown(DbError, store, nid)
    ELSE IF SelectById(store, id) = {} THEN Thrown(UserNotFound, store, nid)
    ELSE updateUserWrite(store, nid, id, updates)

\* the catch block of updateUser
updateUserCatch(r) ==
    IF r.ok \/ r.err.code = "USER_NOT_FOUND" THEN r
    ELSE Rethrown(r, Err("", "Failed to update user"))

updateUserService(store, nid, id, updates, fault) ==
    updateUserCatch(updateUserTry(store, nid, id, updates, fault))

deleteUserTry_keepsRow(store, nid, id, fault) ==
    IF fault THEN Thrown(DbError, store, nid)
    ELSE LET deleted == SelectById(store, id)
         IN  IF deleted = {} THEN Thrown(UserNotFound, store, nid)
             ELSE Returned({}, (CHOOSE r \in deleted : TRUE).id, store, nid)

deleteUserTry(store, nid, id, fault) ==
    IF fault THEN Thrown(DbError, store, nid)
    ELSE LET deleted == SelectById(store, id)
         IN  IF deleted = {} THEN Thrown(UserNotFound, store, nid)
             ELSE Returned({}, (CHOOSE r \in deleted : TRUE).id,
                           store \ deleted, nid)

deleteUserService(store, nid, id, fault) ==
    LET r == deleteUserTry(store, nid, id, fault)
    IN  IF r.ok \/ r.err.code = "USER_NOT_FOUND" THEN r
        ELSE Rethrown(r, Err("", "Failed to delete user"))

---------------------------------------------------------------------------
(* The HTTP response object: what the handler did to res and next *)

NoResponse ==
    [sent |-> 0, status |-> 0, keys |-> {}, error |-> "", details |-> "",
     message |-> "", user |-> {}, users |-> {}, userId |-> 0, text |-> "",
     cookie |-> "none", token |-> {}, next |-> <<>>]

\* res.status(status).json({error})
JsonError(res, status, error) ==
    [res EXCEPT !.sent = @ + 1, !.status = status, !.keys = {"error"},
                !.error = error]

\* res.status(400).json({error: 'Validation error', details})
JsonValidationError(res, result) ==
    [res EXCEPT !.sent = @ + 1, !.status = 400, !.keys = {"error", "details"},
                !.error = "Validation error",
                !.details = formatValidationError(result)]

\* res.status(status).json({message, user})
JsonUser(res, status, message, user) ==
    [res EXCEPT !.sent = @ + 1, !.status = status, !.keys = {"message", "user"},
                !.message = message, !.user = user]

\* res.send(text): express answers 200 unless a status was set
SendText(res, text) ==
    [res EXCEPT !.sent = @ + 1, !.status = 200, !.text = text]

\* next(err)
Forward(res, err) == [res EXCEPT !.next = Append(@, err)]

\* jwttoken.sign({id, email, role}) and cookies.set(res, 'token', token)
SignedToken(user) == [id |-> user.id, email |-> user.email, role |-> user.role]
SetCookie(res, user) ==
    [res EXCEPT !.cookie = "set", !.token = {SignedToken(user)}]

\* cookies.clear(res, 'token')
ClearCookie(res) == [res EXCEPT !.cookie = "cleared", !.token = {}]

Handled(r, res) == [svc |-> r, res |-> res]

---------------------------------------------------------------------------
(* auth.controller.js *)

signup(store, nid, body, fault) ==
    LET v == signupSchema(body)
    IN  IF ~v.success
        THEN Handled(NotCalled(store, nid), JsonValidationError(NoResponse, v))
        ELSE
        LET r == createUser(store, nid, v.data.name.v, v.data.email.v,
                            v.data.password.v, v.data.role, fault)
        IN  IF r.ok
            THEN LET user == CHOOSE u \in r.dto : TRUE
                 IN  Handled(r, JsonUser(SetCookie(NoResponse, user), 201,
                        "User registered successfully",
                        {[id |-> user.id, name |-> user.name,
                          email |-> user.email, role |-> user.role]}))
            ELSE IF r.err.message = "User with this email already exists"
            THEN Handled(r, JsonError(NoResponse, 409, "Email already in use"))
            ELSE Handled(r, Forward(NoResponse, r.err))

signIn(store, nid, body, fault) ==
    LET v == signInSchema(body)
    IN  IF ~v.success
        THEN Handled(NotCalled(store, nid), JsonValidationError(NoResponse, v))
        ELSE
        LET r == signInService(store, nid, v.data.email.v, v.data.password.v, fault)
        IN  IF r.ok
            THEN LET user == CHOOSE u \in r.dto : TRUE
                 IN  Handled(r, JsonUser(SetCookie(NoResponse, user), 200,
                        "Signed in successfully", r.dto))
            ELSE IF r.err.code = "INVALID_CREDENTIALS"
                    \/ r.err.message = "Invalid email or password"
            THEN Handled(r, JsonError(NoResponse, 401, "Invalid email or password"))
            ELSE Handled(r, Forward(NoResponse, r.err))

signOut(store, nid) ==
    Handled(NotCalled(store, nid),
            [ClearCookie(NoResponse) EXCEPT !.sent = @ + 1, !.status = 200,
                !.keys = {"message"}, !.message = "Signed out successfully"])

---------------------------------------------------------------------------
(* auth.routes.js: the handlers the router registers *)

routeSignUp(store, nid, body, fault) == signup(store, nid, body, fault)

routeSignIn(store, nid, body, fault) ==
    Handled(NotCalled(store, nid),
            SendText(NoResponse, "POST /api/auth/sign-in response"))

routeSignOut(store, nid) ==
    Handled(NotCalled(store, nid),
            SendText(NoResponse, "POST /api/auth/sign-out response"))

---------------------------------------------------------------------------
(* users.controller.js *)

NotFoundOrForward_noReturn(r) ==
    IF r.err.code = "USER_NOT_FOUND" \/ r.err.message = "User not found"
    THEN Handled(r, Forward(JsonError(NoResponse, 404, "User not found"), r.err))
    ELSE Handled(r, Forward(NoResponse, r.err))

NotFoundOrForward(r) ==
    IF r.err.code = "USER_NOT_FOUND" \/ r.err.message = "User not found"
    THEN Handled(r, JsonError(NoResponse, 404, "User not found"))
    ELSE Handled(r, Forward(NoResponse, r.err))

getAllUsers(store, nid, fault) ==
    LET r == getAllUsersService(store, nid, fault)
    IN  IF r.ok
        THEN Handled(r, [NoResponse EXCEPT !.sent = @ + 1, !.status = 200,
                            !.keys = {"users"}, !.users = r.dto])
        ELSE Handled(r, Forward(NoResponse, r.err))

getUserById(store, nid, params, fault) ==
    LET v == userIdSchema(params)
    IN  IF ~v.success
        THEN Handled(NotCalled(store, nid), JsonValidationError(NoResponse, v))
        ELSE
        LET r == getUserByIdService(store, nid, v.data.id, fault)
        IN  IF r.ok
            THEN Handled(r, [NoResponse EXCEPT !.sent = @ + 1, !.status = 200,
                                !.keys = {"user"}, !.user = r.dto])
            ELSE NotFoundOrForward(r)

IsSelf(actor, id) == \E a \in actor : a.id = id
IsAdmin(actor) == \E a \in actor : a.role = "admin"

\* what a handler answers instead of going on: <<status, error>>, or <<>>
Rejected(none, rejection) ==
    Handled(none, JsonError(NoResponse, rejection[1], rejection[2]))

updateUserRejection_noRoleCheck(actor, id, updates) ==
    IF actor = {} THEN <<401, "Authentication required">>
    ELSE IF ~IsSelf(actor, id) /\ ~IsAdmin(actor)
    THEN <<403, "You are not allowed to update this user">>
    ELSE <<>>

\* the authorization block of updateUser
updateUserRejection(actor, id, updates) ==
    IF actor = {} THEN <<401, "Authentication required">>
    ELSE IF ~IsSelf(actor, id) /\ ~IsAdmin(actor)
    THEN <<403, "You are not allowed to update this user">>
    ELSE IF IsDefined(updates.role) /\ ~IsAdmin(actor)
    THEN <<403, "Only admin users can change user roles">>
    ELSE <<>>

deleteUserRejection_noOwnerCheck(actor, id) ==
    IF actor = {} THEN <<401, "Authentication required">>
    ELSE <<>>

deleteUserRejection_noActorCheck(actor, id) ==
    IF ~IsSelf(actor, id) /\ ~IsAdmin(actor)
    THEN <<403, "You are not allowed to delete this user">>
    ELSE <<>>

\* the authorization block of deleteUser
deleteUserRejection(actor, id) ==
    IF actor = {} THEN <<401, "Authentication required">>
    ELSE IF ~IsSelf(actor, id) /\ ~IsAdmin(actor)
    THEN <<403, "You are not allowed to delete this user">>
    ELSE <<>>

updateUser(store, nid, params, body, actor, fault) ==
    LET idv == userIdSchema(params)
        bv == updateUserSchema(body)
        id == idv.data.id
        none == NotCalled(store, nid)
    IN  IF ~idv.success THEN Handled(none, JsonValidationError(NoResponse, idv))
        ELSE IF ~bv.success THEN Handled(none, JsonValidationError(NoResponse, bv))
        ELSE IF updateUserRejection(actor, id, bv.data) # <<>>
        THEN Rejected(none, updateUserRejection(actor, id, bv.data))
        ELSE
        LET r == updateUserService(store, nid, id, bv.data, fault)
        IN  IF r.ok
            THEN Handled(r, JsonUser(NoResponse, 200,
                            "User updated successfully", r.dto))
            ELSE NotFoundOrForward(r)

deleteUser(store, nid, params, actor, fault) ==
    LET idv == userIdSchema(params)
        id == idv.data.id
        none == NotCalled(store, nid)
    IN  IF ~idv.success THEN Handled(none, JsonValidationError(NoResponse, idv))
        ELSE IF deleteUserRejection(actor, id) # <<>>
        THEN Rejected(none, deleteUserRejection(actor, id))
        ELSE
        LET r == deleteUserService(store, nid, id, fault)
        IN  IF r.ok
            THEN Handled(r, [NoResponse EXCEPT !.sent = @ + 1, !.status = 200,
                                !.keys = {"message", "userId"},
                                !.message = "User deleted successfully",
                                !.userId = r.id])
            ELSE NotFoundOrForward(r)

---------------------------------------------------------------------------
(* Inputs *)

An == <<"A", "n">>
Bo == <<"B", "o">>
PaddedBo == <<" ", "B", "o">>
ax == <<"a", "@", "x", ".", "c">>
AX == <<"A", "@", "x", ".", "c">>
bx == <<"b", "@", "x", ".", "c">>
NoAt == <<"a", "x">>

SignupBodies ==
    [name : {Str(An), Str(PaddedBo), Str(<<"B">>)},
     email : {Str(ax), Str(AX), Str(bx), Str(NoAt)},
     password : {Str("secret1"), Str("pw")},
     role : {UndefStr, Str("user"), Str("admin"), Str("root")}]

SignInBodies ==
    [name : {UndefSeq},
     email : {Str(ax), Str(AX), Str(bx), Str(NoAt)},
     password : {Str("secret1"), Str("wrong-pw"), Str("")},
     role : {UndefStr}]

UpdateBodies ==
    [name : {UndefSeq, Str(PaddedBo), Str(<<"B">>)},
     email : {UndefSeq, Str(bx), Str(AX)},
     password : {UndefStr},
     role : {UndefStr, Str("user"), Str("admin"), Str("root")}]

\* partials handed to the service directly: any JavaScript values
UpdatePartials ==
    [name : {UndefSeq, Str(Bo), Num(<<"4", "2">>)},
     email : {UndefSeq, Str(bx), Str(ax)},
     password : {UndefStr},
     role : {UndefStr, Str("admin"), Num("1")}]

NoBody ==
    [name |-> UndefSeq, email |-> UndefSeq, password |-> UndefStr, role |-> UndefStr]

\* req.params.id: the text of a number, or text that Number() turns into NaN
IdParams ==
    {[id |-> [numeric |-> TRUE, n |-> k]] : k \in 0..(MaxUsers + 1)}
        \cup {[id |-> [numeric |-> FALSE, n |-> 0]]}
NoParams == [id |-> [numeric |-> FALSE, n |-> 0]]
IdArg(k) == [id |-> [numeric |-> TRUE, n |-> k]]

\* req.user: absent, or the claims of a verified token
Actors == {{}} \cup {{[id |-> i, role |-> r]} : i \in 1..MaxUsers, r \in Roles}

---------------------------------------------------------------------------
(* State machine *)

NoReq ==
    [op |-> "idle", body |-> NoBody, params |-> NoParams, actor |-> {},
     fault |-> FALSE]

SvcView(r) ==
    [called |-> r.called, ok |-> r.ok, err |-> r.err, dto |-> r.dto, id |-> r.id]

NoUpdate ==
    [pc |-> "idle", id |-> 0, updates |-> NoBody,
     result |-> SvcView(NotCalled({}, 1))]

Init ==
    /\ users = {}
    /\ nextId = 1
    /\ req = NoReq
    /\ svc = SvcView(NotCalled({}, 1))
    /\ resp = NoResponse
    /\ deletedIds = {}
    /\ upd = NoUpdate

Idle == req.op = "idle"

\* one request runs to completion: the table, the service outcome and the
\* response are those the handler produced
Handle(op, body, params, actor, fault, out) ==
    /\ out.svc.nextId <= MaxUsers + 1
    /\ users' = out.svc.store
    /\ nextId' = out.svc.nextId
    /\ req' = [op |-> op, body |-> body, params |-> params, actor |-> actor,
               fault |-> fault]
    /\ svc' = SvcView(out.svc)
    /\ resp' = out.res
    /\ deletedIds' = deletedIds \cup ({out.svc.id} \ {0})
    /\ UNCHANGED upd

\* the request and response objects of a finished request are discarded
EndRequest ==
    /\ ~Idle
    /\ req' = NoReq
    /\ svc' = SvcView(NotCalled(users, nextId))
    /\ resp' = NoResponse
    /\ UNCHANGED <<users, nextId, deletedIds, upd>>

PostSignUp ==
    /\ Idle
    /\ \E body \in SignupBodies, fault \in BOOLEAN :
        Handle("POST /api/auth/sign-up", body, NoParams, {}, fault,
               routeSignUp(users, nextId, body, fault))

PostSignIn ==
    /\ Idle
    /\ \E body \in SignInBodies :
        Handle("POST /api/auth/sign-in", body, NoParams, {}, FALSE,
               routeSignIn(users, nextId, body, FALSE))

PostSignOut ==
    /\ Idle
    /\ \E actor \in Actors :
        Handle("POST /api/auth/sign-out", NoBody, NoParams, actor, FALSE,
               routeSignOut(users, nextId))

SignIn ==
    /\ Idle
    /\ \E body \in SignInBodies, fault \in BOOLEAN :
        Handle("signIn", body, NoParams, {}, fault,
               signIn(users, nextId, body, fault))

SignOut ==
    /\ Idle
    /\ \E actor \in Actors :
        Handle("signOut", NoBody, NoParams, actor, FALSE, signOut(users, nextId))

GetAllUsers ==
    /\ Idle
    /\ \E actor \in Actors, fault \in BOOLEAN :
        Handle("getAllUsers", NoBody, NoParams, actor, fault,
               getAllUsers(users, nextId, fault))

GetUserById ==
    /\ Idle
    /\ \E params \in IdParams, actor \in Actors, fault \in BOOLEAN :
        Handle("getUserById", NoBody, params, actor, fault,
               getUserById(users, nextId, params, fault))

UpdateUser ==
    /\ Idle
    /\ \E params \in IdParams, body \in UpdateBodies, actor \in Actors,
       fault \in BOOLEAN :
        Handle("updateUser", body, params, actor, fault,
               updateUser(users, nextId, params, body, actor, fault))

DeleteUser ==
    /\ Idle
    /\ \E params \in IdParams, actor \in Actors, fault \in BOOLEAN :
        Handle("deleteUser", NoBody, params, actor, fault,
               deleteUser(users, nextId, params, actor, fault))

Next ==
    \/ PostSignUp
    \/ PostSignIn
    \/ PostSignOut
    \/ SignIn
    \/ SignOut
    \/ GetAllUsers
    \/ GetUserById
    \/ UpdateUser
    \/ DeleteUser
    \/ EndRequest

Spec == Init /\ [][Next]_vars

---------------------------------------------------------------------------
(* The services called directly *)

CallCreateUser ==
    /\ Idle
    /\ \E body \in {b \in SignupBodies : signupSchema(b).success}, fault \in BOOLEAN :
        Handle("createUser", body, NoParams, {}, fault,
               Handled(createUser(users, nextId, ParsedName(body.name).v,
                                  ParsedEmail(body.email).v, body.password.v,
                                  body.role, fault),
                       NoResponse))

CallSignIn ==
    /\ Idle
    /\ \E body \in {b \in SignInBodies : signInSchema(b).success}, fault \in BOOLEAN :
        Handle("signInService", body, NoParams, {}, fault,
               Handled(signInService(users, nextId, ParsedEmail(body.email).v,
                                     body.password.v, fault),
                       NoResponse))

CallGetAllUsers ==
    /\ Idle
    /\ \E fault \in BOOLEAN :
        Handle("getAllUsersService", NoBody, NoParams, {}, fault,
               Handled(getAllUsersService(users, nextId, fault), NoResponse))

CallGetUserById ==
    /\ Idle
    /\ \E k \in 0..(MaxUsers + 1), fault \in BOOLEAN :
        Handle("getUserByIdService", NoBody, IdArg(k), {}, fault,
               Handled(getUserByIdService(users, nextId, k, fault), NoResponse))

CallUpdateUser ==
    /\ Idle
    /\ \E k \in 0..(MaxUsers + 1), partial \in UpdatePartials, fault \in BOOLEAN :
        Handle("updateUserService", partial, IdArg(k), {}, fault,
               Handled(updateUserService(users, nextId, k, partial, fault),
                       NoResponse))

CallDeleteUser ==
    /\ Idle
    /\ \E k \in 0..(MaxUsers + 1), fault \in BOOLEAN :
        Handle("deleteUserService", NoBody, IdArg(k), {}, fault,
               Handled(deleteUserService(users, nextId, k, fault), NoResponse))

SvcNext ==
    \/ CallCreateUser
    \/ CallSignIn
    \/ CallGetAllUsers
    \/ CallGetUserById
    \/ CallUpdateUser
    \/ CallDeleteUser
    \/ EndRequest

SvcSpec == Init /\ [][SvcNext]_vars

---------------------------------------------------------------------------
(* updateUser of users.service.js step by step: other calls run between its
   awaits *)

\* await db.select({id}).from(users).where(eq(users.id, numericId)).limit(1)
UpdateUserCheck ==
    /\ upd.pc = "idle"
    /\ \E k \in 1..MaxUsers, partial \in UpdatePartials :
          upd' = IF SelectById(users, k) = {}
                 THEN [pc |-> "done", id |-> k, updates |-> partial,
                       result |-> SvcView(updateUserCatch(
                                      Thrown(UserNotFound, users, nextId)))]
                 ELSE [pc |-> "checked", id |-> k, updates |-> partial,
                       result |-> NoUpdate.result]
    /\ UNCHANGED <<users, nextId, req, svc, resp, deletedIds>>

\* await getUserById(numericId), or await db.update(users)...returning(...)
UpdateUserWrite ==
    /\ upd.pc = "checked"
    /\ LET r == updateUserCatch(updateUserWrite(users, nextId, upd.id, upd.updates))
       IN  /\ users' = r.store
           /\ upd' = [upd EXCEPT !.pc = "done", !.result = SvcView(r)]
    /\ UNCHANGED <<nextId, req, svc, resp, deletedIds>>

\* the call has settled
UpdateUserReturn ==
    /\ upd.pc = "done"
    /\ upd' = NoUpdate
    /\ UNCHANGED <<users, nextId, req, svc, resp, deletedIds>>

RaceNext ==
    \/ CallCreateUser
    \/ CallDeleteUser
    \/ EndRequest
    \/ UpdateUserCheck
    \/ UpdateUserWrite
    \/ UpdateUserReturn

\* updateUser interleaved with createUser and deleteUser calls
RaceSpec == Init /\ [][RaceNext]_vars

FullNext == Next \/ SvcNext

\* the controllers and the services, each callable
FullSpec == Init /\ [][FullNext]_vars

---------------------------------------------------------------------------
(* Vocabulary of the properties *)

IsRequest(op) == Idle /\ req'.op = op
RowIds(store) == {r.id : r \in store}
TargetId(r) == userIdSchema(r.params).data.id
NonAdminActor(r) == r.actor # {} /\ ~IsAdmin(r.actor)
InvalidCredentials == Err("INVALID_CREDENTIALS", "Invalid email or password")

\* the stored user a sign-in body names, and whether its password matches
SignInUser(store, body) == SelectByEmail(store, signInSchema(body).data.email.v)
UnknownEmail(store, body) ==
    signInSchema(body).success /\ SignInUser(store, body) = {}
WrongPassword(store, body) ==
    /\ signInSchema(body).success
    /\ \E r \in SignInUser(store, body) : r.password # hashPassword(body.password.v)
RightPassword(store, body) ==
    /\ signInSchema(body).success
    /\ \E r \in SignInUser(store, body) : r.password = hashPassword(body.password.v)

---------------------------------------------------------------------------
(* C1 *)

\* C1: a sign-up whose (normalised) email already has a row is answered 409,
\* createUser having failed with AlreadyExists, and inserts no row.
C1_DuplicateSignupConflict ==
    [][(/\ IsRequest("POST /api/auth/sign-up")
        /\ ~req'.fault
        /\ signupSchema(req'.body).success
        /\ SelectByEmail(users, signupSchema(req'.body).data.email.v) # {})
       => (/\ resp'.status = 409
           /\ svc'.err.message = "User with this email already exists"
           /\ users' = users)]_vars

---------------------------------------------------------------------------
(* C2 *)

\* C2: a sign-in naming no stored email and a sign-in naming a stored email
\* with a wrong password end in the same service error (code and message) and
\* the same response: 401, the same body, no cookie, nothing forwarded.
C2_SignInFailuresIdentical ==
    /\ (/\ req.op = "signIn"
        /\ ~req.fault
        /\ UnknownEmail(users, req.body) \/ WrongPassword(users, req.body))
       => (/\ svc = [called |-> TRUE, ok |-> FALSE, err |-> InvalidCredentials,
                     dto |-> {}, id |-> 0]
           /\ resp = [NoResponse EXCEPT !.sent = 1, !.status = 401,
                         !.keys = {"error"},
                         !.error = "Invalid email or password"])
    /\ \A b1, b2 \in SignInBodies :
          (Idle /\ UnknownEmail(users, b1) /\ WrongPassword(users, b2))
          => (/\ signIn(users, nextId, b1, FALSE).res
                    = signIn(users, nextId, b2, FALSE).res
              /\ SvcView(signIn(users, nextId, b1, FALSE).svc)
                    = SvcView(signIn(users, nextId, b2, FALSE).svc))

\* a sign-in with a stored email and a wrong password was answered, while
\* another body names an email that is not stored
C2_Witness ==
    /\ req.op = "signIn"
    /\ ~req.fault
    /\ WrongPassword(users, req.body)
    /\ resp.status = 401
    /\ \E b \in SignInBodies : UnknownEmail(users, b)

---------------------------------------------------------------------------
(* C3 *)

\* C3: POST /api/auth/sign-in with the email and password of a stored user is
\* answered 200 with {message, user} and sets the session cookie.
C3_SignInRouteSucceeds ==
    (/\ req.op = "POST /api/auth/sign-in"
     /\ RightPassword(users, req.body))
    => (/\ resp.status = 200
        /\ resp.keys = {"message", "user"}
        /\ resp.user = {WithoutPassword(r) : r \in SignInUser(users, req.body)}
        /\ resp.cookie = "set")

---------------------------------------------------------------------------
(* C4 *)

\* C4: POST /api/auth/sign-out is always answered 200 with {message} and
\* clears the session cookie.
C4_SignOutRouteClearsCookie ==
    req.op = "POST /api/auth/sign-out"
    => (/\ resp.status = 200
        /\ resp.keys = {"message"}
        /\ resp.cookie = "cleared")

---------------------------------------------------------------------------
(* C5 *)

Validated(r) ==
    /\ userIdSchema(r.params).success
    /\ r.op = "updateUser" => updateUserSchema(r.body).success

\* C5: an update request by a non-admin actor whose body sets role never
\* reaches the update service and leaves the table unchanged, whatever the
\* target id (the actor's own included); it is answered 403 (400 when the id
\* or the body fails validation, which the handler checks first).
C5_NonAdminCannotSetRole ==
    [][(/\ IsRequest("updateUser")
        /\ NonAdminActor(req')
        /\ IsDefined(req'.body.role))
       => (/\ users' = users
           /\ ~svc'.called
           /\ resp'.sent = 1
           /\ resp'.next = <<>>
           /\ resp'.status = IF Validated(req') THEN 403 ELSE 400)]_vars

\* a user-role actor asked to make itself admin and got 403
C5_Witness ==
    /\ req.op = "updateUser"
    /\ NonAdminActor(req)
    /\ IsSelf(req.actor, TargetId(req))
    /\ SelectById(users, TargetId(req)) # {}
    /\ req.body.role = Str("admin")
    /\ resp.status = 403
    /\ resp.error = "Only admin users can change user roles"

---------------------------------------------------------------------------
(* C6 *)

\* C6: an update or delete request by a non-admin actor whose id differs from
\* the target id never reaches the service and leaves the table unchanged,
\* answered 403 (400 when the update body fails validation); and in every
\* step, each row that is modified or removed is the actor's own row or the
\* actor is an admin.
C6_OnlySelfOrAdminChangesRows ==
    [][/\ (/\ IsRequest("updateUser") \/ IsRequest("deleteUser")
           /\ userIdSchema(req'.params).success
           /\ NonAdminActor(req')
           /\ ~IsSelf(req'.actor, TargetId(req')))
          => (/\ users' = users
              /\ ~svc'.called
              /\ resp'.sent = 1
              /\ resp'.next = <<>>
              /\ resp'.status = IF Validated(req') THEN 403 ELSE 400)
       /\ \A r \in users \ users' :
             IsSelf(req'.actor, r.id) \/ IsAdmin(req'.actor)]_vars

\* a user-role actor asked to delete another, existing user and got 403
C6_Witness ==
    /\ req.op = "deleteUser"
    /\ NonAdminActor(req)
    /\ userIdSchema(req.params).success
    /\ ~IsSelf(req.actor, TargetId(req))
    /\ SelectById(users, TargetId(req)) # {}
    /\ resp.status = 403

---------------------------------------------------------------------------
(* C7 *)

\* C7: deleteUser on an id without a row throws NotFound and leaves the table
\* unchanged; on an id with a row it returns that id and removes exactly that
\* row; and every later getUserById or deleteUser on an id that deleteUser has
\* returned throws NotFound.
C7_DeleteThenNotFound ==
    [][/\ (IsRequest("deleteUserService") /\ ~req'.fault)
          => (IF SelectById(users, req'.params.id.n) = {}
              THEN /\ ~svc'.ok
                   /\ svc'.err = UserNotFound
                   /\ users' = users
              ELSE /\ svc'.ok
                   /\ svc'.id = req'.params.id.n
                   /\ users' = users \ SelectById(users, req'.params.id.n)
                   /\ req'.params.id.n \notin RowIds(users'))
       /\ (/\ IsRequest("deleteUserService") \/ IsRequest("getUserByIdService")
           /\ ~req'.fault
           /\ req'.params.id.n \in deletedIds)
          => (~svc'.ok /\ svc'.err = UserNotFound)]_vars

\* a user was deleted and a later getUserById on its id threw NotFound
C7_Witness ==
    /\ req.op = "getUserByIdService"
    /\ req.params.id.n \in deletedIds
    /\ svc.err = UserNotFound
    /\ users # {}

---------------------------------------------------------------------------
(* C8 *)

\* the row of the table with this id, fields outside `keys` blanked
Outside(r, keys) == [f \in DOMAIN r \ keys |-> r[f]]

\* C8: updateUser on an existing id with a partial holding no string name,
\* email or role returns the current record without error and changes no
\* row; with some of them supplied, only those fields of the target row
\* change (to the supplied strings, when the update succeeds) and every
\* other row is unchanged.
C8_UpdateTouchesOnlySuppliedFields ==
    [][(/\ IsRequest("updateUserService")
        /\ ~req'.fault
        /\ SelectById(users, req'.params.id.n) # {})
       => LET id == req'.params.id.n
              keys == {k \in {"name", "email", "role"} : req'.body[k].t = "string"}
          IN  IF keys = {}
              THEN /\ svc'.ok
                   /\ svc'.dto = {PublicColumns(r) : r \in SelectById(users, id)}
                   /\ users' = users
              ELSE /\ {r \in users' : r.id # id} = {r \in users : r.id # id}
                   /\ {Outside(r, keys) : r \in SelectById(users', id)}
                        = {Outside(r, keys) : r \in SelectById(users, id)}
                   /\ svc'.ok =>
                        /\ \A r \in SelectById(users', id), k \in keys :
                              r[k] = req'.body[k].v
                        /\ svc'.dto = {PublicColumns(r) : r \in SelectById(users', id)}
                   /\ ~svc'.ok => users' = users]_vars

\* an update whose partial has no string field (one of them a number) returned
\* the record of an existing user, another user being stored beside it
C8_Witness ==
    /\ req.op = "updateUserService"
    /\ \A k \in {"name", "email", "role"} : req.body[k].t # "string"
    /\ req.body.name.t = "number"
    /\ svc.ok
    /\ svc.dto = {PublicColumns(r) : r \in SelectById(users, req.params.id.n)}
    /\ Cardinality(users) = 2

---------------------------------------------------------------------------
(* C9 *)

\* C9: no user record a service returns, and no user record or token in a
\* response, has a password field.
C9_NoPasswordReturned ==
    /\ \A d \in svc.dto : "password" \notin DOMAIN d
    /\ \A d \in resp.user : "password" \notin DOMAIN d
    /\ \A d \in resp.users : "password" \notin DOMAIN d
    /\ \A d \in resp.token : "password" \notin DOMAIN d

\* a sign-in succeeded and answered with the stored user's record
C9_Witness ==
    /\ req.op = "signIn"
    /\ resp.status = 200
    /\ \E d \in resp.user, r \in users :
          /\ d.id = r.id
          /\ "password" \in DOMAIN r
          /\ DOMAIN d = DOMAIN r \ {"password"}

---------------------------------------------------------------------------
(* C10 *)

\* 401 or 403 when the response is an authorization rejection, else 0
AuthVerdict(res) == IF res.status \in {401, 403} THEN res.status ELSE 0

ExpectedVerdict(actor, id, setsRole) ==
    IF actor = {} THEN 401
    ELSE IF (\A a \in actor : a.id # id /\ a.role # "admin") THEN 403
    ELSE IF setsRole /\ (\A a \in actor : a.role # "admin") THEN 403
    ELSE 0

\* C10 as stated: whether an update request is rejected 401 or 403 does not
\* depend on the validity of its body: any other body making the same role
\* change, from the same actor for the same target, gets the same verdict.
C10_VerdictIgnoresValidation ==
    req.op = "updateUser"
    => \A b \in UpdateBodies :
          b.role = req.body.role
          => AuthVerdict(updateUser(users, nextId, req.params, b, req.actor,
                                    req.fault).res)
                = AuthVerdict(resp)

\* C10 as amended: authorization precedes execution and follows validation.
\* An update or delete request whose id or body fails validation is answered
\* 400 whatever its actor; one that passes is rejected 401 or 403 as its
\* actor, its target and (for an update) the presence of role in its body
\* determine, and the service is called exactly when it is not rejected.
C10_AuthAfterValidationBeforeExecution ==
    req.op \in {"updateUser", "deleteUser"}
    => IF ~Validated(req)
       THEN resp.status = 400 /\ ~svc.called
       ELSE /\ AuthVerdict(resp)
                = ExpectedVerdict(req.actor, TargetId(req),
                                  req.op = "updateUser" /\ IsDefined(req.body.role))
            /\ svc.called <=> AuthVerdict(resp) = 0

\* an update request without an actor and with an invalid body got 400, not 401
C10_Witness ==
    /\ req.op = "updateUser"
    /\ req.actor = {}
    /\ userIdSchema(req.params).success
    /\ ~updateUserSchema(req.body).success
    /\ resp.status = 400

---------------------------------------------------------------------------
(* C11 *)

\* C11: after any sequence of requests every stored role is "user" or
\* "admin", and a sign-up whose body has no role stores the role "user" and
\* answers with it.
C11_RolesRestricted ==
    /\ \A r \in users : r.role \in {"user", "admin"}
    /\ (/\ req.op = "POST /api/auth/sign-up"
        /\ svc.ok
        /\ ~IsDefined(req.body.role))
       => /\ \A d \in svc.dto : \A r \in SelectById(users, d.id) : r.role = "user"
          /\ \A d \in resp.user : d.role = "user"
          /\ \A t \in resp.token : t.role = "user"

\* a sign-up without a role was stored and answered 201, next to an admin
C11_Witness ==
    /\ req.op = "POST /api/auth/sign-up"
    /\ ~IsDefined(req.body.role)
    /\ resp.status = 201
    /\ resp.cookie = "set"
    /\ \E d \in resp.user : \E r \in SelectById(users, d.id) : r.role = "user"
    /\ \E r \in users : r.role = "admin"

---------------------------------------------------------------------------
(* C12 *)

\* whether the request passes the schemas its handler applies
PassesValidation(r) ==
    CASE r.op = "POST /api/auth/sign-up" -> signupSchema(r.body).success
      [] r.op = "signIn" -> signInSchema(r.body).success
      [] r.op = "getUserById" -> userIdSchema(r.params).success
      [] r.op = "updateUser" -> /\ userIdSchema(r.params).success
                                /\ updateUserSchema(r.body).success
      [] r.op = "deleteUser" -> userIdSchema(r.params).success
      [] OTHER -> TRUE

\* the status a controller answers for an error it recognises, else 0
DomainStatus(err) ==
    IF err.message = "User with this email already exists" THEN 409
    ELSE IF err.code = "INVALID_CREDENTIALS" THEN 401
    ELSE IF err.code = "USER_NOT_FOUND" THEN 404
    ELSE 0

---------------------------------------------------------------------------
(* C13 *)

\* C13: with deleteUser calls running between the steps of updateUser, a
\* settled updateUser has either thrown (NotFound, or the store's failure) or
\* returned a user record of the id it was called with; it never returns
\* successfully without a user.
C13_UpdateNeverReturnsAbsentUser ==
    upd.pc = "done"
    => IF upd.result.ok
       THEN \E d \in upd.result.dto : d.id = upd.id
       ELSE upd.result.err \in {UserNotFound, Err("", "Failed to update user")}

===========================================================================
